---- MODULE Spec2Model ----
(***************************************************************************)
(* A model of lib/view.js of npm-api: a View over a CouchDB view, its url  *)
(* builder and its two ways of running a request, query (rows buffered     *)
(* behind a promise) and stream (the parser stream handed to the caller).  *)
(*                                                                         *)
(* The collaborators view.js wires together are modelled by what they do   *)
(* to the listeners view.js attaches:                                      *)
(*   - the transport (utils.request) may emit 'error' at any time;         *)
(*   - the parser (utils.JSONStream.parse('rows.*')) walks the body in     *)
(*     order, emits 'header' once (before the first row when fields came   *)
(*     before the rows, otherwise when the input is exhausted), 'data' per *)
(*     row, 'error' on malformed input and 'end' last;                     *)
(*   - an EventEmitter that emits 'error' with no listener throws;         *)
(*   - a promise settles once.                                             *)
(* The listeners pipe itself attaches are not part of the model: an error  *)
(* is thrown in it only when no listener of view.js is left to take it.    *)
(* After an error the emitters may go on or fall silent; both are runs.    *)
(* Rows are non-null JSON values and header fields strings, as CouchDB     *)
(* sends them. One call is made per run (limit); calls are indexed so that *)
(* several can be.                                                         *)
(***************************************************************************)
EXTENDS Integers, Sequences, FiniteSets, TLC

VARIABLES heap, views, calls, nextCall, limit, requests, server, returned

vars == <<heap, views, calls, nextCall, limit, requests, server, returned>>

----------------------------------------------------------------------------
(* Bounds of the model *)

\* longest rows array of a response body
MaxRows == 2
\* most 'error' events the emitters (transports and parsers) of a run emit
MaxErrors == 2
\* most Views constructed in one run
MaxViews == 2

----------------------------------------------------------------------------
(* Values *)

\* identifiers of the calls made on the view
CallIds == {1, 2}

\* a key a JSON object does not carry (JavaScript's undefined)
Undefined == "<undefined>"

\* rows of a view: opaque non-null JSON values
Rows == {"a", "b"}

ViewNames == {"dependedUpon"}

\* the names of the Views of a run that constructs several
ManyViewNames == {"dependedUpon", "byUser"}

ParamSets == {<<>>, <<[key |-> "group_level", value |-> "2"]>>}

\* the `params` argument of url, query and stream: omitted, or a mapping
Omitted == [given |-> FALSE, map |-> <<>>]

ParamArgs == {Omitted} \cup {[given |-> TRUE, map |-> m] : m \in ParamSets}

\* params || {}
OrEmpty(a) == IF a.given THEN a.map ELSE <<>>

TransportErrors == {"ECONNREFUSED", "ETIMEDOUT"}

ParseErrors == {"Invalid JSON"}

\* JavaScript truthiness of a header field (a string or undefined)
Truthy(v) == v # Undefined /\ v # ""

\* the top-level fields of a response outside `rows`
FieldKeys == {"error", "reason", "total_rows"}

NoFields == [k \in FieldKeys |-> Undefined]

MkFields(e, r, t) == [error |-> e, reason |-> r, total_rows |-> t]

HasFields(f) == \E k \in FieldKeys : f[k] # Undefined

\* header[key] = value for every key of f (JSONStream's setHeaderFooter)
MergeFields(h, f) == [k \in FieldKeys |-> IF f[k] # Undefined THEN f[k] ELSE h[k]]

SeqsUpTo(S, n) == UNION {[1..k -> S] : k \in 0..n}

\* the error descriptors (error, reason) a body may carry
Descriptors ==
  { <<Undefined, Undefined>>, <<"not_found", Undefined>>, <<"not_found", "">>,
    <<"not_found", "missing">>, <<"", "missing">> }

\* The response bodies the server may send: one JSON object with an optional
\* total_rows before the rows, an optional rows array, and an optional error
\* descriptor (error, reason) placed before or after the rows.
Bodies ==
  { [pre     |-> IF at = "pre" \/ ~hasRows THEN MkFields(d[1], d[2], t) ELSE MkFields(Undefined, Undefined, t),
     hasRows |-> hasRows,
     rows    |-> IF hasRows THEN rows ELSE <<>>,
     post    |-> IF at = "post" /\ hasRows THEN MkFields(d[1], d[2], Undefined) ELSE NoFields] :
       d \in Descriptors, t \in {Undefined, "2"}, at \in {"pre", "post"},
       hasRows \in BOOLEAN, rows \in SeqsUpTo(Rows, MaxRows) }

\* the bodies with at most one row
ShortBodies == {b \in Bodies : Len(b.rows) <= 1}

\* three bodies that tell calls apart: a header and row a, row b alone, and
\* an error descriptor without rows
FewBodies ==
  { [pre |-> MkFields(Undefined, Undefined, "2"), hasRows |-> TRUE, rows |-> <<"a">>, post |-> NoFields],
    [pre |-> NoFields, hasRows |-> TRUE, rows |-> <<"b">>, post |-> NoFields],
    [pre |-> MkFields("not_found", "missing", Undefined), hasRows |-> FALSE, rows |-> <<>>, post |-> NoFields] }

\* the arguments the callers of query and stream pass, by the kind of run
Asked(kind) ==
  IF kind = "few" THEN {[given |-> TRUE, map |-> <<[key |-> "group_level", value |-> "2"]>>]}
  ELSE ParamArgs

\* the bodies a server of the given kind answers with
Served(kind) ==
  CASE kind = "any"   -> Bodies
    [] kind = "short" -> ShortBodies
    [] kind = "few"   -> FewBodies

NoBody == [pre |-> NoFields, hasRows |-> FALSE, rows |-> <<>>, post |-> NoFields]

----------------------------------------------------------------------------
(* config, View and url *)

\* ./config: the process-wide default connection descriptor
config == [protocol |-> "https", host |-> "skimdb.npmjs.com", pathname |-> "/registry/_design/app"]

\* Objects live in `heap`, a sequence of cells; a reference is an index.
\* The process-wide config object is the first cell.
DefaultRef == 1

\* mutant: no copy is made, the instance shares the object it was given
cloneAlias(h, r) == [heap |-> h, ref |-> r]

\* utils.clone(config): a new object with the fields of the one cloned
clone(h, r) == [heap |-> Append(h, h[r]), ref |-> Len(h) + 1]

\* function View(name): this.name, this.config = utils.clone(config), and
\* this.config.pathname += '/_view/' + this.name
View(h, name) ==
  LET c == clone(h, DefaultRef)
  IN [heap |-> [c.heap EXCEPT ![c.ref].pathname = @ \o "/_view/" \o name],
      view |-> [name |-> name, config |-> c.ref]]

RECURSIVE stringify(_)
\* the query component url.format builds from the query mapping
stringify(params) ==
  IF params = <<>> THEN ""
  ELSE LET p == Head(params)
           rest == stringify(Tail(params))
       IN p.key \o "=" \o p.value \o (IF rest = "" THEN "" ELSE "&" \o rest)

\* url.format of an object with protocol, host, pathname and query
format(o) ==
  LET q == stringify(o.query)
  IN o.protocol \o "://" \o o.host \o o.pathname \o (IF q = "" THEN "" ELSE "?" \o q)

\* mutant: utils.merge(this.config, {query: ...}), the config is the target
mergeIntoConfig(h, r, q) ==
  LET o == [protocol |-> h[r].protocol, host |-> h[r].host,
            pathname |-> h[r].pathname, query |-> q]
  IN [heap |-> [h EXCEPT ![r] = o], obj |-> o]

\* utils.merge({}, this.config, {query: ...}): a new object, the config is
\* only read
merge(h, r, q) ==
  [heap |-> h,
   obj  |-> [protocol |-> h[r].protocol, host |-> h[r].host,
             pathname |-> h[r].pathname, query |-> q]]

\* mutant: the view's path segment is appended at every call
urlAppending(h, v, a) ==
  LET g == [h EXCEPT ![v.config].pathname = @ \o "/_view/" \o v.name]
      m == merge(g, v.config, OrEmpty(a))
  IN [heap |-> m.heap, str |-> format(m.obj)]

\* View.prototype.url: the string built, and the heap it leaves
url(h, v, a) ==
  LET m == merge(h, v.config, OrEmpty(a))
  IN [heap |-> m.heap, str |-> format(m.obj)]

\* mutant: the GET is issued twice
requestTwice(reqs, u) == reqs \o <<[method |-> "GET", url |-> u], [method |-> "GET", url |-> u]>>

\* utils.request(url): one GET is issued
request(reqs, u) == Append(reqs, [method |-> "GET", url |-> u])

----------------------------------------------------------------------------
(* The promise of query *)

Pending == [state |-> "pending", value |-> <<>>]

\* mutant: a later rejection replaces an earlier one
RejectLast(p, e) == IF p.state # "resolved" THEN [state |-> "rejected", value |-> e] ELSE p

\* reject(e) of the promise: only the first settlement has effect
reject(p, e) == IF p.state = "pending" THEN [state |-> "rejected", value |-> e] ELSE p

\* mutant: a resolution replaces an earlier settlement
ResolveAlways(p, v) == [state |-> "resolved", value |-> v]

\* resolve(v) of the promise: only the first settlement has effect
resolve(p, v) == IF p.state = "pending" THEN [state |-> "resolved", value |-> v] ELSE p

NoError == [kind |-> "none", message |-> ""]

\* the Error objects a call may meet
TransportError(e) == [kind |-> "transport", message |-> e]

ParseError(e) == [kind |-> "parse", message |-> e]

\* mutant: error || reason
MessageErrorFirst(h) == IF Truthy(h.error) THEN h.error ELSE h.reason

\* header.reason || header.error
HeaderMessage(h) == IF Truthy(h.reason) THEN h.reason ELSE h.error

\* new Error(header.reason || header.error)
HeaderError(h) == [kind |-> "header", message |-> HeaderMessage(h)]

----------------------------------------------------------------------------
(* One call: the request, the parser piped behind it, the listeners of     *)
(* query's closure, and what the caller of stream has been delivered.      *)

\* JSONStream's `header` variable: undefined, an object being collected, or
\* false once the 'header' event has been emitted
HdrUndefined == [st |-> "undefined", val |-> NoFields]

HdrFalse == [st |-> "false", val |-> NoFields]

HdrSet(f) == [st |-> "set", val |-> f]

\* what the user keeps of a call of url: nothing yet
NoUrl == [view |-> 0, arg |-> Omitted, str |-> "", cfg |-> <<>>]

\* a call that has not been made. Beside the program's state a call keeps
\* what has happened to it: first (the first failure signal emitted),
\* terrSeen (the transport errors emitted, each with whether the parser had
\* still to emit 'end'), perrAfterRows (a parser error met rows buffered)
NoCall ==
  [mode |-> "none", params |-> Omitted, url |-> "", body |-> NoBody,
   errs |-> 0,
   phase |-> "pre", idx |-> 0, hdrAcc |-> HdrUndefined,
   reqErrL |-> FALSE, parErrL |-> FALSE, endL |-> FALSE,
   items |-> <<>>, header |-> NoFields, promise |-> Pending,
   out |-> <<>>, uncaught |-> {},
   first |-> NoError, terrSeen |-> {}, perrAfterRows |-> FALSE]

\* a failure signal is emitted: the first one is remembered
Note(s, e) == IF s.first = NoError THEN [s EXCEPT !.first = e] ELSE s

\* the listener of the parser's 'header' event (query)
OnHeader(s, data) ==
  [s EXCEPT !.header = data,
            !.promise = IF Truthy(data.error) THEN reject(s.promise, HeaderError(data)) ELSE s.promise]

\* mutant: one `items` array for all the calls
OnDataShared(s, data) ==
  [s EXCEPT !.items = Append(calls[1].items \o calls[2].items, data)]

\* mutant: items.unshift(data)
OnDataUnshift(s, data) == [s EXCEPT !.items = <<data>> \o s.items]

\* the listener of the parser's 'data' event (query): items.push(data)
OnData(s, data) == [s EXCEPT !.items = Append(s.items, data)]

\* mutant: the parser's errors are not listened to
OnParserErrorIgnored(s, e) == [s EXCEPT !.uncaught = s.uncaught]

\* parser.once('error', reject): the listener is removed as it fires; an
\* 'error' event with no listener left is thrown by the emitter
OnParserError(s, e) ==
  IF s.parErrL
  THEN [s EXCEPT !.parErrL = FALSE, !.promise = reject(s.promise, e)]
  ELSE [s EXCEPT !.uncaught = s.uncaught \cup {e}]

\* mutant: the request's errors are not listened to
OnRequestErrorIgnored(s, e) == [s EXCEPT !.uncaught = s.uncaught]

\* request.once('error', reject)
OnRequestError(s, e) ==
  IF s.reqErrL
  THEN [s EXCEPT !.reqErrL = FALSE, !.promise = reject(s.promise, e)]
  ELSE [s EXCEPT !.uncaught = s.uncaught \cup {e}]

\* mutant: if (items.length) resolve(items)
OnEndIfRows(s) ==
  IF s.endL
  THEN [s EXCEPT !.endL = FALSE,
                 !.promise = IF s.items # <<>> THEN resolve(s.promise, s.items) ELSE s.promise]
  ELSE s

\* mutant: the parser's 'end' is not listened to
OnEndIgnored(s) == s

\* parser.once('end', function () { resolve(items); })
OnEnd(s) ==
  IF s.endL
  THEN [s EXCEPT !.endL = FALSE, !.promise = resolve(s.promise, s.items)]
  ELSE s

\* mutant: parse('rows.0') matches the first element only
MatchFirstRow(rows) == IF rows = <<>> THEN <<>> ELSE <<rows[1]>>

\* JSONStream.parse('rows.*'): one match per element of rows, in array order
MatchRows(rows) == rows

\* mutant: stream intercepts the header as query does
EmitInterceptingHeader(s, sig, data) ==
  IF s.mode = "query"
  THEN CASE sig = "header" -> OnHeader(s, data)
         [] sig = "data"   -> OnData(s, data)
         [] sig = "error"  -> OnParserError(s, data)
         [] sig = "end"    -> OnEnd(s)
  ELSE IF sig = "header"
       THEN IF Truthy(data.error)
            THEN [s EXCEPT !.out = Append(s.out, [sig |-> "error", data |-> HeaderError(data)])]
            ELSE s
       ELSE [s EXCEPT !.out = Append(s.out, [sig |-> sig, data |-> data])]

\* what the parser emits reaches query's listeners, or (stream) the caller
\* subscribed to the returned parser stream
Emit(s, sig, data) ==
  IF s.mode = "query"
  THEN CASE sig = "header" -> OnHeader(s, data)
         [] sig = "data"   -> OnData(s, data)
         [] sig = "error"  -> OnParserError(s, data)
         [] sig = "end"    -> OnEnd(s)
  ELSE IF sig = "header" THEN s
       ELSE [s EXCEPT !.out = Append(s.out, [sig |-> sig, data |-> data])]

\* the count of 'error' events emitted so far, over all the calls
TotalErrs == calls[1].errs + calls[2].errs

----------------------------------------------------------------------------
(* Operations *)

\* one View has been constructed; no call has been made. `limit` is the
\* number of calls the run makes and `server` the kind of run: which
\* bodies the server answers with and which params are asked for; neither
\* changes.
Init ==
  /\ \E n \in ViewNames :
       LET r == View(<<config>>, n)
       IN heap = r.heap /\ views = <<r.view>>
  /\ calls = [c \in CallIds |-> NoCall]
  /\ nextCall = 1
  /\ limit = 1
  /\ requests = <<>>
  /\ server = "any"
  /\ returned = NoUrl

\* View.prototype.url called by the user
Url(i) ==
  /\ i \in DOMAIN views
  /\ \E a \in ParamArgs : heap' = url(heap, views[i], a).heap
  /\ UNCHANGED <<views, calls, nextCall, limit, requests, server, returned>>

\* View.prototype.query: the GET is issued, the parser is piped behind it and
\* the five listeners are attached; the server's answer is fixed by `body`
query(c) ==
  /\ c = nextCall /\ c <= limit
  /\ \E a \in Asked(server), body \in Served(server) :
       LET u == url(heap, views[1], [given |-> TRUE, map |-> OrEmpty(a)])
       IN /\ heap' = u.heap
          /\ requests' = request(requests, u.str)
          /\ calls' = [calls EXCEPT ![c] =
               [NoCall EXCEPT !.mode = "query", !.params = a, !.url = u.str, !.body = body,
                              !.reqErrL = TRUE, !.parErrL = TRUE, !.endL = TRUE]]
  /\ nextCall' = nextCall + 1
  /\ UNCHANGED <<views, limit, server, returned>>

\* View.prototype.stream: the GET is issued and the parser piped behind it is
\* returned; no listener is attached to the request
stream(c) ==
  /\ c = nextCall /\ c <= limit
  /\ \E a \in Asked(server), body \in Served(server) :
       LET u == url(heap, views[1], [given |-> TRUE, map |-> OrEmpty(a)])
       IN /\ heap' = u.heap
          /\ requests' = request(requests, u.str)
          /\ calls' = [calls EXCEPT ![c] =
               [NoCall EXCEPT !.mode = "stream", !.params = a, !.url = u.str, !.body = body]]
  /\ nextCall' = nextCall + 1
  /\ UNCHANGED <<views, limit, server, returned>>

\* the request emits 'error'
RequestError(c) ==
  LET s == calls[c]
  IN /\ s.mode # "none"
     /\ TotalErrs < MaxErrors
     /\ \E m \in TransportErrors :
          LET e == TransportError(m)
              t == [s EXCEPT !.errs = s.errs + 1,
                             !.terrSeen = s.terrSeen \cup {[err |-> e, early |-> s.phase # "done"]}]
          IN calls' = [calls EXCEPT ![c] = OnRequestError(Note(t, e), e)]
     /\ UNCHANGED <<heap, views, nextCall, limit, requests, server, returned>>

\* the parser reads the fields in front of `rows` (all the fields, when the
\* body has no rows) and collects them as the header
ParserPre(c) ==
  LET s == calls[c]
      b == s.body
  IN /\ s.mode # "none"
     /\ s.phase = "pre"
     /\ calls' = [calls EXCEPT ![c] =
          [s EXCEPT !.hdrAcc = IF HasFields(b.pre) THEN HdrSet(b.pre) ELSE HdrUndefined,
                    !.phase = IF b.hasRows THEN "rows" ELSE "tail"]]
     /\ UNCHANGED <<heap, views, nextCall, limit, requests, server, returned>>

\* the parser emits 'header' with the fields collected so far
EmitHeader(s) ==
  LET h == s.hdrAcc.val
      t == [s EXCEPT !.hdrAcc = HdrFalse]
  IN Emit(IF Truthy(h.error) THEN Note(t, HeaderError(h)) ELSE t, "header", h)

\* at the first match the parser emits the header collected so far, if any
ParserHeader(c) ==
  LET s == calls[c]
  IN /\ s.mode # "none"
     /\ s.phase = "rows" /\ s.idx = 0 /\ Len(MatchRows(s.body.rows)) > 0
     /\ s.hdrAcc.st = "set"
     /\ calls' = [calls EXCEPT ![c] = EmitHeader(s)]
     /\ UNCHANGED <<heap, views, nextCall, limit, requests, server, returned>>

\* the parser emits the next match of rows.*
ParserRow(c) ==
  LET s == calls[c]
      m == MatchRows(s.body.rows)
  IN /\ s.mode # "none"
     /\ s.phase = "rows" /\ s.idx < Len(m)
     /\ ~(s.idx = 0 /\ s.hdrAcc.st = "set")
     /\ calls' = [calls EXCEPT ![c] = Emit([s EXCEPT !.idx = s.idx + 1], "data", m[s.idx + 1])]
     /\ UNCHANGED <<heap, views, nextCall, limit, requests, server, returned>>

\* the parser reads the fields behind `rows`: they join the header while it
\* has not been emitted, and the footer (which nobody listens to) after
ParserPost(c) ==
  LET s == calls[c]
      b == s.body
  IN /\ s.mode # "none"
     /\ s.phase = "rows" /\ s.idx = Len(MatchRows(b.rows))
     /\ calls' = [calls EXCEPT ![c] =
          [s EXCEPT !.hdrAcc = IF HasFields(b.post) /\ s.hdrAcc.st # "false"
                               THEN HdrSet(MergeFields(s.hdrAcc.val, b.post))
                               ELSE s.hdrAcc,
                    !.phase = "tail"]]
     /\ UNCHANGED <<heap, views, nextCall, limit, requests, server, returned>>

\* the input is exhausted: the parser emits a header it still holds, then 'end'
ParserEnd(c) ==
  LET s == calls[c]
      h == IF s.hdrAcc.st = "set" THEN EmitHeader(s) ELSE s
  IN /\ s.mode # "none"
     /\ s.phase = "tail"
     /\ calls' = [calls EXCEPT ![c] = Emit([h EXCEPT !.phase = "done"], "end", <<>>)]
     /\ UNCHANGED <<heap, views, nextCall, limit, requests, server, returned>>

\* the parser meets malformed input and emits 'error'
ParserError(c) ==
  LET s == calls[c]
  IN /\ s.mode # "none"
     /\ s.phase # "done"
     /\ TotalErrs < MaxErrors
     /\ \E m \in ParseErrors :
          LET e == ParseError(m)
              t == [s EXCEPT !.errs = s.errs + 1,
                             !.perrAfterRows = s.perrAfterRows \/ s.idx > 0]
          IN calls' = [calls EXCEPT ![c] = Emit(Note(t, e), "error", e)]
     /\ UNCHANGED <<heap, views, nextCall, limit, requests, server, returned>>

Next ==
  \/ \E i \in 1..MaxViews : Url(i)
  \/ \E c \in CallIds : query(c)
  \/ \E c \in CallIds : stream(c)
  \/ \E c \in CallIds : RequestError(c)
  \/ \E c \in CallIds : ParserPre(c)
  \/ \E c \in CallIds : ParserHeader(c)
  \/ \E c \in CallIds : ParserRow(c)
  \/ \E c \in CallIds : ParserPost(c)
  \/ \E c \in CallIds : ParserEnd(c)
  \/ \E c \in CallIds : ParserError(c)

Spec == Init /\ [][Next]_vars

\* no View has been constructed; the run makes no call
InitCfg ==
  /\ heap = <<config>>
  /\ views = <<>>
  /\ calls = [c \in CallIds |-> NoCall]
  /\ nextCall = 1
  /\ limit = 0
  /\ requests = <<>>
  /\ server = "any"
  /\ returned = NoUrl

\* new View(name)
Construct(name) ==
  /\ Len(views) < MaxViews
  /\ LET r == View(heap, name)
     IN heap' = r.heap /\ views' = Append(views, r.view)
  /\ UNCHANGED <<calls, nextCall, limit, requests, server, returned>>

\* the user assigns a field of the config of a View
MutateConfig(i) ==
  /\ i \in DOMAIN views
  /\ \E f \in {<<"protocol", "http">>, <<"host", "localhost">>, <<"pathname", "/db">>} :
       heap' = [heap EXCEPT ![views[i].config][f[1]] = f[2]]
  /\ UNCHANGED <<views, calls, nextCall, limit, requests, server, returned>>

\* View.prototype.url called by a user who keeps the string, with the view,
\* the argument and the config it was built from
UrlKept(i) ==
  /\ i \in DOMAIN views
  /\ \E a \in ParamArgs :
       LET u == url(heap, views[i], a)
       IN /\ heap' = u.heap
          /\ returned' = [view |-> i, arg |-> a, str |-> u.str, cfg |-> heap[views[i].config]]
  /\ UNCHANGED <<views, calls, nextCall, limit, requests, server>>

NextCfg ==
  \/ \E n \in ManyViewNames : Construct(n)
  \/ \E i \in 1..MaxViews : MutateConfig(i)
  \/ \E i \in 1..MaxViews : UrlKept(i)

\* Views are constructed, their configs assigned to and their urls built
SpecCfg == InitCfg /\ [][NextCfg]_vars

\* as Init, for two calls in flight at once and a server of three bodies
InitConc ==
  /\ \E n \in ViewNames :
       LET r == View(<<config>>, n)
       IN heap = r.heap /\ views = <<r.view>>
  /\ calls = [c \in CallIds |-> NoCall]
  /\ nextCall = 1
  /\ limit = 2
  /\ requests = <<>>
  /\ server = "few"
  /\ returned = NoUrl

SpecConc == InitConc /\ [][Next]_vars

\* the parser of call c takes its next step
ParserStep(c) ==
  ParserPre(c) \/ ParserHeader(c) \/ ParserRow(c) \/ ParserPost(c) \/ ParserEnd(c)

\* as Init, with a server that answers with short bodies
InitLive ==
  /\ \E n \in ViewNames :
       LET r == View(<<config>>, n)
       IN heap = r.heap /\ views = <<r.view>>
  /\ calls = [c \in CallIds |-> NoCall]
  /\ nextCall = 1
  /\ limit = 1
  /\ requests = <<>>
  /\ server = "short"
  /\ returned = NoUrl

\* the transport delivers the whole body of every call to its parser
LiveSpec == InitLive /\ [][Next]_vars /\ \A c \in CallIds : WF_vars(ParserStep(c))

----------------------------------------------------------------------------
(* Claims *)

QueryCalls == {c \in CallIds : calls[c].mode = "query"}

StreamCalls == {c \in CallIds : calls[c].mode = "stream"}

\* C1: once query's header listener has seen a header with a truthy `error`,
\* the promise is rejected and stays so, whatever was buffered before and
\* whatever the parser emits afterwards ('end' included).
C1_HeaderErrorRejects ==
  \A c \in QueryCalls :
    Truthy(calls[c].header.error) => calls[c].promise.state = "rejected"

\* rows were buffered before the header event (the error descriptor follows
\* the rows of a body that starts with them) and 'end' has fired since
C1_Witness ==
  \E c \in QueryCalls :
    /\ Truthy(calls[c].header.error)
    /\ ~HasFields(calls[c].body.pre) /\ calls[c].items # <<>>
    /\ calls[c].phase = "done"
    /\ calls[c].promise.state = "rejected"

\* C2: a body read to its end without transport or parser error that carries
\* a truthy `error` field anywhere outside `rows` makes query reject.
C2_ErrorAnywhereRejects ==
  \A c \in QueryCalls :
    (/\ calls[c].phase = "done" /\ calls[c].errs = 0
     /\ (Truthy(calls[c].body.pre.error) \/ Truthy(calls[c].body.post.error)))
    => calls[c].promise.state = "rejected"

\* C3 as stated: a transport error emitted before the parser's 'end' leaves
\* the promise rejected with that very error (read on the calls in which
\* every error signal found its listener).
C3_RejectedWithThatError ==
  \A c \in QueryCalls :
    calls[c].uncaught = {} =>
      \A t \in calls[c].terrSeen :
        t.early => calls[c].promise = [state |-> "rejected", value |-> t.err]

\* C3 (amended): a transport error emitted before the parser's 'end' leaves
\* the promise rejected, never resolved; the reason is that error when it was
\* the first failure signal of the call.
C3_TransportErrorRejects ==
  \A c \in QueryCalls :
    \A t \in calls[c].terrSeen :
      t.early =>
        /\ calls[c].promise.state = "rejected"
        /\ (calls[c].first = t.err => calls[c].promise.value = t.err)

\* the transport failed after rows had been buffered and the promise is
\* rejected with the transport's error
C3_Witness ==
  \E c \in QueryCalls :
    \E t \in calls[c].terrSeen :
      /\ t.early /\ calls[c].items # <<>>
      /\ calls[c].promise = [state |-> "rejected", value |-> t.err]

\* C4: every error the transport emits for a stream call is delivered as an
\* error signal on the sequence stream returned.
C4_StreamDeliversTransportError ==
  \A c \in StreamCalls :
    \A t \in calls[c].terrSeen :
      \E i \in DOMAIN calls[c].out : calls[c].out[i] = [sig |-> "error", data |-> t.err]

\* C5: after header (without error), rows and 'end' with no error of any
\* kind, query has resolved with exactly the rows of the body, in order.
C5_ResolvesWithRowsInOrder ==
  \A c \in QueryCalls :
    (/\ calls[c].phase = "done" /\ calls[c].errs = 0
     /\ ~Truthy(calls[c].header.error))
    => calls[c].promise = [state |-> "resolved", value |-> calls[c].body.rows]

\* two different rows behind a header, resolved
C5_Witness ==
  \E c \in QueryCalls :
    /\ calls[c].phase = "done" /\ calls[c].errs = 0
    /\ calls[c].header.total_rows = "2"
    /\ calls[c].promise.state = "resolved"
    /\ Len(calls[c].promise.value) = 2
    /\ calls[c].promise.value[1] # calls[c].promise.value[2]

\* C6: the reason of a rejected query is the failure signal that came first.
C6_FirstFailureIsTheReason ==
  \A c \in QueryCalls :
    calls[c].promise.state = "rejected" => calls[c].promise.value = calls[c].first

\* a header error came first, two more error signals followed
C6_Witness ==
  \E c \in QueryCalls :
    /\ calls[c].errs >= 2
    /\ calls[c].promise.state = "rejected"
    /\ calls[c].promise.value.kind = "header"

\* C7: no error signal of a query call reaches an emitter that has no error
\* listener left, so nothing is thrown.
C7_LaterErrorsAreDiscarded ==
  \A c \in QueryCalls : calls[c].uncaught = {}

\* C8: the message of a header rejection is the header's reason when that is
\* truthy, and the header's error otherwise.
C8_HeaderErrorMessage ==
  \A c \in QueryCalls :
    (calls[c].promise.state = "rejected" /\ calls[c].promise.value.kind = "header")
    => calls[c].promise.value.message =
         IF Truthy(calls[c].header.reason) THEN calls[c].header.reason
         ELSE calls[c].header.error

\* {"error":"not_found","reason":"missing"} rejects with "missing"
C8_Witness ==
  \E c \in QueryCalls :
    /\ calls[c].header.error = "not_found" /\ calls[c].header.reason = "missing"
    /\ calls[c].promise = [state |-> "rejected", value |-> [kind |-> "header", message |-> "missing"]]

\* C9: a parser error that met buffered rows leaves the promise rejected,
\* also after the parser's 'end'.
C9_ParserErrorRejects ==
  \A c \in QueryCalls :
    calls[c].perrAfterRows => calls[c].promise.state = "rejected"

\* rows buffered, then the parser's error, then its 'end'
C9_Witness ==
  \E c \in QueryCalls :
    /\ calls[c].perrAfterRows /\ calls[c].items # <<>>
    /\ calls[c].phase = "done"
    /\ calls[c].promise.state = "rejected"
    /\ calls[c].promise.value.kind = "parse"

\* C10: stream's sequence never delivers anything behind 'end', and after a
\* body read to its end with no error it has delivered the rows of the body,
\* one data event each in source order, and then one 'end'.
C10_StreamDeliversRowsThenEnd ==
  \A c \in StreamCalls :
    LET s == calls[c]
    IN /\ \A i \in DOMAIN s.out : s.out[i].sig = "end" => i = Len(s.out)
       /\ (s.phase = "done" /\ s.errs = 0) =>
            s.out = [i \in 1..Len(s.body.rows) |-> [sig |-> "data", data |-> s.body.rows[i]]]
                      \o <<[sig |-> "end", data |-> <<>>]>>

\* two different rows and the end delivered
C10_Witness ==
  \E c \in StreamCalls :
    /\ calls[c].phase = "done" /\ calls[c].errs = 0
    /\ Len(calls[c].out) = 3
    /\ calls[c].out[1].data # calls[c].out[2].data
    /\ calls[c].out[3].sig = "end"

\* C11: a header with a truthy `error` is no failure for stream: while no
\* transport or parser error occurs the returned sequence delivers no error
\* signal, and it has ended once the body is read to its end; query is
\* rejected as soon as such a header is emitted.
C11_StreamIgnoresHeaderError ==
  \A c \in CallIds :
    LET s == calls[c]
    IN (s.first.kind = "header" /\ s.errs = 0) =>
         /\ s.mode = "stream" =>
              /\ \A i \in DOMAIN s.out : s.out[i].sig # "error"
              /\ s.phase = "done" => s.out[Len(s.out)].sig = "end"
         /\ s.mode = "query" => s.promise.state = "rejected"

\* a stream whose header carried an error has delivered its row and ended
C11_Witness ==
  \E c \in StreamCalls :
    /\ calls[c].first.kind = "header"
    /\ calls[c].phase = "done" /\ calls[c].errs = 0
    /\ Len(calls[c].out) = 2
    /\ calls[c].out[1].sig = "data" /\ calls[c].out[2].sig = "end"

\* the body carries `rows`, empty, and no truthy error field
EmptyRowsNoError(s) ==
  /\ s.body.hasRows /\ s.body.rows = <<>>
  /\ ~Truthy(s.body.pre.error) /\ ~Truthy(s.body.post.error)
  /\ s.phase = "done" /\ s.errs = 0

\* C15: an empty rows array read to its end with no error resolves query
\* with the empty sequence, and gives stream's caller 'end' and no data.
C15_EmptyRows ==
  \A c \in CallIds :
    EmptyRowsNoError(calls[c]) =>
      /\ calls[c].mode = "query" =>
           calls[c].promise = [state |-> "resolved", value |-> <<>>]
      /\ calls[c].mode = "stream" =>
           calls[c].out = <<[sig |-> "end", data |-> <<>>]>>

C15_Witness ==
  \E c \in QueryCalls :
    /\ EmptyRowsNoError(calls[c])
    /\ calls[c].promise = [state |-> "resolved", value |-> <<>>]

\* C17: when the body is delivered whole to the parser, every query call
\* is eventually settled.
C17_QuerySettles ==
  \A c \in CallIds :
    (calls[c].mode = "query") ~> (calls[c].promise.state # "pending")

\* a query settled by the parser's 'end' alone
C17_Witness ==
  \E c \in QueryCalls :
    /\ calls[c].phase = "done" /\ calls[c].errs = 0
    /\ calls[c].promise.state = "resolved"
    /\ calls[c].items # <<>>

\* C18: a settled promise keeps its outcome and its value through every
\* later event of the call.
C18_SettledOnce ==
  [][\A c \in CallIds :
       calls[c].promise.state # "pending" => calls'[c].promise = calls[c].promise]_vars

\* rejected by the header, and rows, an error and 'end' have arrived since
C18_Witness ==
  \E c \in QueryCalls :
    /\ calls[c].promise.state = "rejected"
    /\ calls[c].promise.value.kind = "header"
    /\ calls[c].items # <<>> /\ calls[c].errs > 0 /\ calls[c].phase = "done"

\* the calls made so far
Made == 1..(nextCall - 1)

\* C12: with two calls in flight and their events interleaved, a resolved
\* query holds exactly the rows of its own response, a rejected query holds
\* the first failure of its own call, and a call without a failure of its
\* own is never rejected.
C12_CallsIndependent ==
  \A c \in QueryCalls :
    /\ calls[c].promise.state = "resolved" => calls[c].promise.value = calls[c].body.rows
    /\ calls[c].promise.state = "rejected" =>
         calls[c].first # NoError /\ calls[c].promise.value = calls[c].first

\* a query resolved with its row beside a call that failed, rows of the
\* other call having arrived before its own end
C12_Witness ==
  \E c \in QueryCalls, d \in CallIds :
    /\ c # d
    /\ calls[c].promise.state = "resolved"
    /\ calls[c].promise.value = <<"a">>
    /\ calls[d].body.rows = <<"b">> /\ calls[d].idx = 1
    /\ calls[d].first.kind = "transport"

\* the config object of View i
ConfigOf(h, i) == h[views[i].config]

\* C13: constructing Views and assigning to the config of one View leaves
\* the process-wide default as it was, and changes the config, and the url,
\* of no other View.
C13_ConfigsIndependent ==
  /\ heap[DefaultRef] = config
  /\ [][/\ heap'[DefaultRef] = config
        /\ \A i, j \in DOMAIN views :
             (i # j /\ ConfigOf(heap', i) # ConfigOf(heap, i)) =>
               /\ ConfigOf(heap', j) = ConfigOf(heap, j)
               /\ url(heap', views[j], Omitted).str = url(heap, views[j], Omitted).str]_vars

\* two Views, the host of one assigned to, the other and the default intact
C13_Witness ==
  /\ Len(views) = 2
  /\ ConfigOf(heap, 1).host = "localhost"
  /\ ConfigOf(heap, 2).host = config.host
  /\ heap[DefaultRef] = config

\* C14: whatever calls were made and however they ended, the View has the
\* name it was constructed with and the default config with `/_view/<name>`
\* appended once to its pathname, so the url of every call made is the url
\* the View builds now for the same params.
C14_ViewAsConstructed ==
  /\ \A i \in DOMAIN views :
       /\ views[i].name \in ViewNames
       /\ ConfigOf(heap, i) =
            [config EXCEPT !.pathname = config.pathname \o "/_view/" \o views[i].name]
  /\ \A c \in Made : calls[c].url = url(heap, views[1], calls[c].params).str

\* a call has ended rejected, with an error thrown on the way
C14_Witness ==
  \E c \in QueryCalls :
    /\ calls[c].promise.state = "rejected" /\ calls[c].uncaught # {}
    /\ calls[c].phase = "done"
    /\ ConfigOf(heap, 1).pathname = "/registry/_design/app/_view/dependedUpon"

C19_OneGetPerCall ==
  /\ Len(requests) = nextCall - 1
  /\ \A c \in Made :
       requests[c] = [method |-> "GET", url |-> url(heap, views[1], calls[c].params).str]

\* a stream call with params has issued its GET
C19_Witness ==
  \E c \in StreamCalls :
    /\ calls[c].params.given /\ calls[c].params.map # <<>>
    /\ requests = <<[method |-> "GET",
                     url |-> "https://skimdb.npmjs.com/registry/_design/app/_view/dependedUpon?group_level=2"]>>

====
